---- MODULE Spec2Model ----
(***************************************************************************)
(* Model of the graceful shutdown coordinator (class ShutdownCoordinator): *)
(* connection registry, drain with grace timer, resource cleanup, shutdown *)
(* callbacks and process exit.  One action is one run-to-completion step   *)
(* of the host event loop: a macrotask (signal, socket event, timer,       *)
(* listener close callback) or the continuation of an awaited promise.     *)
(* Macrotasks run only when no continuation of the shutdown sequence is    *)
(* ready (the microtask queue is drained before the next macrotask).       *)
(* Registered callbacks do asynchronous work: each invocation settles in a *)
(* macrotask of its own.  When the continuations of executeShutdownSequence*)
(* and of the chain of transitionToCleanup are both queued, they run in    *)
(* the order of the promise jobs: the resumption after drainConnections    *)
(* precedes every step of the chain; with no callback to wait for, the     *)
(* chain's executeShutdownCallbacks precedes the sequence's, and the       *)
(* sequence's completeShutdown precedes the chain's.                       *)
(***************************************************************************)
EXTENDS FiniteSets, Integers, Naturals, Sequences, TLC

\* ---- bounds of the model ------------------------------------------------
MaxTime == 2
MaxConnCounter == 2
MaxRequests == 1
MaxRC == 1
MaxSC == 1
MaxTriggers == 2
MaxRCWide == 2
MaxSCWide == 2
MaxResConn == 1
MaxThrowing == 1
MaxThrowingWide == 2
MaxRefused == 2

\* ---- configuration (this.config), scaled to the model clock -------------
gracePeriodMs == 1
connectionTimeoutMs == 2
maxConnections == 2
maxConnectionsLow == 1

\* ---- program constants ---------------------------------------------------
GRACEFUL == 0
TIMEOUT == 1
RESOURCE_CLEANUP_FAILED == 2
SIGNAL_ERROR == 3

ACTIVE == "active"
SHUTDOWN_PENDING == "shutdown_pending"
DRAINING == "draining"
CLEANUP == "cleanup"
TERMINATION == "termination"
SHUTDOWN_STATES == {ACTIVE, SHUTDOWN_PENDING, DRAINING, CLEANUP, TERMINATION}

Signals == {"SIGTERM", "SIGINT", "SIGUSR2"}
Faults == {"UNCAUGHT_EXCEPTION", "UNHANDLED_REJECTION"}
HandlerKinds == Signals \cup Faults
Triggers == Signals \cup Faults \cup {"PROGRAMMATIC"}
ErrorNames == {"Error", "TimeoutError"}
ConnIds == 1..MaxConnCounter

\* handles a host can give to trackTimer, trackInterval and trackEventListener;
\* the listeners in the order they are tracked
UserTimers == {"t1"}
UserIntervals == {"i1"}
UserListeners == <<"l1", "l2">>
ListenerSet == {UserListeners[i] : i \in 1..Len(UserListeners)}
Handles == {"grace"} \cup UserTimers \cup UserIntervals \cup ListenerSet

\* events the coordinator emits during a shutdown; a host listener may throw
Events == {"shutdown-initiated", "server-closed", "draining-started",
           "connections-force-closed", "cleanup-started", "cleanup-completed",
           "shutdown-callbacks-completed", "shutdown-completed", "force-shutdown"}

VARIABLES
    state,                 \* this.state
    shutdownInitiated,     \* this.shutdownInitiated
    shutdownStartTime,     \* this.shutdownStartTime, -1 for null
    shutdownErrors,        \* this.shutdownErrors, the names of the errors
    activeConnections,     \* this.activeConnections: id -> record
    connectionCounter,     \* this.connectionCounter
    notified,              \* per connection: emissions of 'connection-removed'
    removeCalls,           \* per connection: calls of removeConnection
    maxConnectionsReached, \* this.maxConnectionsReached
    sockets,               \* transport of every offered connection
    idleTimer,             \* per connection idle timeout: -1 unarmed, else ms left
    now,                   \* Date.now(), saturating at MaxTime
    connLimit,             \* this.config.maxConnections
    request,               \* the request being handled by requestHandler and its response
    server,                \* this.server: "none" or the registered server
    refused,               \* calls of registerServer that threw, as counted by a caller
    listening,             \* the listener admits connections
    closeCallback,         \* callback given to server.close: none/pending/fired
    timers,                \* this.timers
    signalHandlers,        \* this.signalHandlers (keys)
    processListeners,      \* per trigger kind: coordinator handlers on the process
    nRC,                   \* this.resourceCleanupCallbacks.length
    nSC,                   \* this.shutdownCallbacks.length
    graceTimer,            \* graceTimeout: none/armed/cleared/fired
    graceRemaining,        \* ms left on the grace timer
    subscribed,            \* checkConnections listens for connection-removed
    pcA,                   \* position of executeShutdownSequence
    acceptResolved,        \* promise of stopAcceptingConnections resolved
    drainResolved,         \* promise of drainConnections resolved
    seqSignal,             \* signal argument of the running sequence
    seqError,              \* error argument of the running sequence is non-null
    pcB,                   \* position of the chain started by transitionToCleanup
    tasks,                 \* callback invocations started and not yet settled
    rcInvoked,             \* invocations of each resource-cleanup callback
    scInvoked,             \* invocations of each shutdown callback
    exited,                \* process.exit was called
    exitCode,              \* its argument, -1 before
    exitVia,               \* none/completeShutdown/forceShutdown/signal
    outcomeSignal,         \* signal field of the shutdown summary
    drainEntry,            \* how drainConnections was entered: none/empty/waiting
    drainOutcome,          \* what resolved the drain: none/immediate/natural/forced
    seqStarts,             \* calls of executeShutdownSequence
    cleanupStarts,         \* calls of performResourceCleanup
    forceCloseByTimer,     \* calls of forceCloseConnections from the grace timer
    resolveCalls,          \* calls of resolve() of the drain promise
    transitionCalls,       \* calls of transitionToCleanup
    triggerCount,          \* calls of handleSignal
    intervals,             \* this.intervals
    eventListeners,        \* this.eventListeners (the tracked handlers)
    released,              \* per handle: calls of clearTimeout/clearInterval/removeListener
    failedReleases,        \* listeners whose removeListener threw
    throwing,              \* events that have a listener that throws
    forceQueue,            \* exit codes of the pending exit timers of forceShutdown
    forceCodes,            \* arguments of the calls of forceShutdown, in order
    escaped,               \* exceptions thrown by listeners of the shutdown events
    uncaught               \* exceptions that reached the process-level handlers

coordVars == <<state, shutdownInitiated, shutdownStartTime, shutdownErrors>>
regVars == <<activeConnections, connectionCounter, maxConnectionsReached, notified,
            removeCalls>>
sockVars == <<sockets, idleTimer>>
srvVars == <<server, refused, listening, closeCallback>>
resVars == <<timers, signalHandlers, processListeners>>
cbVars == <<nRC, nSC>>
graceVars == <<graceTimer, graceRemaining, subscribed>>
seqVars == <<pcA, acceptResolved, drainResolved, seqSignal, seqError, pcB>>
taskVars == <<tasks, rcInvoked, scInvoked>>
exitVars == <<exited, exitCode, exitVia, outcomeSignal>>
obsVars == <<drainEntry, drainOutcome, seqStarts, cleanupStarts, forceCloseByTimer,
            resolveCalls, transitionCalls, triggerCount>>

trackVars == <<intervals, eventListeners, released, failedReleases>>
faultVars == <<throwing, forceQueue, forceCodes, escaped, uncaught>>

vars == <<coordVars, regVars, sockVars, now,
connLimit, request, srvVars, resVars, cbVars, graceVars,
          seqVars, taskVars, exitVars, obsVars, trackVars, faultVars>>

\* ---- helpers ---------------------------------------------------------------
Size(m) == Cardinality(DOMAIN m)
EmptyMap == [i \in {} |-> 0]
Without_DeleteForgotten(m, id) == m
Without(m, id) == [i \in (DOMAIN m) \ {id} |-> m[i]]
Min(a, b) == IF a < b THEN a ELSE b

\* no request has reached requestHandler
NoRequest ==
    [pc |-> "idle", down |-> FALSE, validated |-> FALSE, processed |-> FALSE,
     timer |-> "none", headersSent |-> FALSE, status |-> 0,
     path |-> "none", entry |-> FALSE, registerCalls |-> 0, unregisterCalls |-> 0]

\* variant: the cleanup at the end of the try block, which a return or an
\* exception skips
EntryAfterHandler_SkippedOnEarlyExit(path) == path # "success"

\* requestHandler: activeConnections.delete(currentConnectionId) in the finally
\* block, whatever way the try block was left
EntryAfterHandler(path) == FALSE

\* requestHandler: unregisterConnection(currentConnectionId) follows the delete
UnregisterCallsAfterHandler(path) == IF EntryAfterHandler(path) THEN 0 ELSE 1

\* the way the try block of requestHandler is left after validateRequest settled:
\* a response already sent by the request timeout makes res.setHeader throw
PathAfterValidation(outcome, headersSent) ==
    IF outcome # "ok" THEN "invalid"
    ELSE IF headersSent THEN "exception" ELSE "success"

\* constructor, with limit the configured maxConnections
Construct(limit) ==
    /\ state = ACTIVE
    /\ shutdownInitiated = FALSE
    /\ shutdownStartTime = -1
    /\ shutdownErrors = <<>>
    /\ activeConnections = EmptyMap
    /\ connectionCounter = 0
    /\ notified = [i \in ConnIds |-> 0]
    /\ removeCalls = [i \in ConnIds |-> 0]
    /\ maxConnectionsReached = FALSE
    /\ sockets = [i \in ConnIds |-> "unborn"]
    /\ idleTimer = [i \in ConnIds |-> -1]
    /\ now = 0
    /\ connLimit = limit
    /\ request = NoRequest
    /\ server = "none"
    /\ refused = 0
    /\ listening = FALSE
    /\ closeCallback = "none"
    /\ timers = {}
    /\ signalHandlers = {}
    /\ processListeners = [k \in HandlerKinds |-> 0]
    /\ nRC = 0
    /\ nSC = 0
    /\ graceTimer = "none"
    /\ graceRemaining = 0
    /\ subscribed = FALSE
    /\ pcA = "idle"
    /\ acceptResolved = FALSE
    /\ drainResolved = FALSE
    /\ seqSignal = "none"
    /\ seqError = FALSE
    /\ pcB = "none"
    /\ tasks = {}
    /\ rcInvoked = [c \in 1..MaxRCWide |-> 0]
    /\ scInvoked = [c \in 1..MaxSCWide |-> 0]
    /\ exited = FALSE
    /\ exitCode = -1
    /\ exitVia = "none"
    /\ outcomeSignal = "none"
    /\ drainEntry = "none"
    /\ drainOutcome = "none"
    /\ seqStarts = 0
    /\ cleanupStarts = 0
    /\ forceCloseByTimer = 0
    /\ resolveCalls = 0
    /\ transitionCalls = 0
    /\ triggerCount = 0
    /\ intervals = {}
    /\ eventListeners = {}
    /\ released = [h \in Handles |-> 0]
    /\ failedReleases = {}
    /\ throwing = {}
    /\ forceQueue = <<>>
    /\ forceCodes = <<>>
    /\ escaped = 0
    /\ uncaught = 0

\* construction with the limit of the standard configuration
Init == Construct(maxConnections)

\* construction with a limit below the number of connections offered
InitLimit == Construct(maxConnectionsLow)

\* ---- the event loop ----------------------------------------------------------
TasksOf(chain, kind) == {t \in tasks : t[1] = chain /\ t[2] = kind}

\* the promise awaited by executeShutdownSequence is resolved
AReady ==
    \/ pcA = "stopAccept" /\ acceptResolved
    \/ pcA = "drain" /\ drainResolved
    \/ pcA = "cleanup" /\ TasksOf("A", "rc") = {}
    \/ pcA = "callbacks" /\ TasksOf("A", "sc") = {}

\* the promise awaited by the chain of transitionToCleanup is resolved
BReady ==
    \/ pcB = "cleanup" /\ TasksOf("B", "rc") = {}
    \/ pcB = "callbacks" /\ TasksOf("B", "sc") = {}

\* a macrotask may run: the process lives and no continuation is queued
Quiescent == ~exited /\ ~AReady /\ ~BReady

\* ---- conditions and values of the code ---------------------------------------
\* variants of the guard: no guard at all; a guard on the pending state only
GuardBlocks_None == FALSE
GuardBlocks_PendingOnly == state = SHUTDOWN_PENDING

\* handleSignal: if (this.shutdownInitiated) return
GuardBlocks == shutdownInitiated

\* variant: drainConnections without its early return
RegistryEmptyAtEntry_Never == FALSE

\* drainConnections: if (this.activeConnections.size === 0) return
RegistryEmptyAtEntry == Size(activeConnections) = 0

\* variant: checkConnections without its size test
CheckConnectionsEmpty_Always(conns) == TRUE

\* checkConnections: if (this.activeConnections.size === 0)
CheckConnectionsEmpty(conns) == Size(conns) = 0

\* variant: removeConnection testing the size only
DrainingComplete_AnyState(st, conns) == Size(conns) = 0

\* removeConnection: state === DRAINING && activeConnections.size === 0
DrainingComplete(st, conns) == st = DRAINING /\ Size(conns) = 0

\* variant: the timer is not cancelled
ClearTimeout_Forgotten(t) == t

\* clearTimeout(timer): an armed timer is cancelled, any other is left as it is
ClearTimeout(t) == IF t = "armed" THEN "cleared" ELSE t

\* variant: forceCloseConnections without the clear()
ForceClosedRegistry_NotCleared(conns) == conns

\* forceCloseConnections: this.activeConnections.clear()
ForceClosedRegistry(conns) == EmptyMap

\* process.on(kind, handler) for every kind in kinds
AddHandlers(pl, kinds) == [k \in HandlerKinds |-> IF k \in kinds THEN pl[k] + 1 ELSE pl[k]]

\* process.removeListener(kind, handler) for every kind in kinds
RemoveHandlers(pl, kinds) ==
    [k \in HandlerKinds |-> IF k \in kinds /\ pl[k] > 0 THEN pl[k] - 1 ELSE pl[k]]

\* what a caller can pass to registerServer: nothing, an object without a close
\* function, the host's server, another server
ServerArgs == {"null", "noClose", "registered", "other"}

\* registerServer accepting whatever it is given
ValidServer_Unchecked(srv) == TRUE

\* registerServer: !server || typeof server.close !== 'function' is false
ValidServer(srv) == ~(srv = "null" \/ srv = "noClose")

\* registerServer not refusing a second registration
AlreadyRegistered_Unchecked == FALSE

\* registerServer: if (this.server)
AlreadyRegistered == server # "none"

\* removeConnection acting without looking the connection up
HasConnection_Unchecked(conns, id) == TRUE

\* removeConnection: activeConnections.get(connectionId) is defined
HasConnection(conns, id) == id \in DOMAIN conns

\* variant: the admitted connection is not stored
Registered_NotStored(conns, id, t) == conns

\* activeConnections.set(connectionId, connectionInfo) at time t
Registered(conns, id, t) ==
    [i \in DOMAIN conns \cup {id} |->
        IF i = id THEN [startTime |-> t, requestCount |-> 0, lastActivity |-> t]
        ELSE conns[i]]

\* the limit check letting one connection too many in
LimitReached_OffByOne(conns) == Size(conns) > connLimit

\* setupConnectionTracking: activeConnections.size >= config.maxConnections
LimitReached(conns) == Size(conns) >= connLimit

\* removeConnection: activeConnections.size < config.maxConnections * 0.8
BelowThreshold(conns) == 10 * Size(conns) < 8 * connLimit

\* variant: the error argument of completeShutdown is not looked at
ExitCodeFor_IgnoresTrigger(err, errors) ==
    IF Len(errors) > 0
    THEN IF \E i \in 1..Len(errors) : errors[i] = "TimeoutError"
         THEN TIMEOUT ELSE RESOURCE_CLEANUP_FAILED
    ELSE GRACEFUL

\* variant: only the first recorded error is classified
ExitCodeFor_FirstErrorOnly(err, errors) ==
    IF err \/ Len(errors) > 0
    THEN IF Len(errors) > 0 /\ errors[1] = "TimeoutError"
         THEN TIMEOUT ELSE RESOURCE_CLEANUP_FAILED
    ELSE GRACEFUL

\* completeShutdown: the exit code
ExitCodeFor(err, errors) ==
    IF err \/ Len(errors) > 0
    THEN IF \E i \in 1..Len(errors) : errors[i] = "TimeoutError"
         THEN TIMEOUT ELSE RESOURCE_CLEANUP_FAILED
    ELSE GRACEFUL

\* callback invocations started by one Promise.all / Promise.allSettled
StartedTasks(chain, kind, n) == {<<chain, kind, c>> : c \in 1..n}
Invoke(count, n) == [c \in DOMAIN count |-> IF c <= n THEN count[c] + 1 ELSE count[c]]

\* emit(ev) with a listener that throws
Throws(ev) == ev \in throwing

\* one more release call on every handle of hs
ReleasedBy(rel, hs) == [h \in Handles |-> IF h \in hs THEN rel[h] + 1 ELSE rel[h]]

\* variant: a removeListener that throws ends the sweep before the clear()
RemainingAfterSweep_KeptOnFailure(ls, fails) == IF ls \cap fails # {} THEN ls ELSE {}

\* performResourceCleanup: each removeListener is in a try/catch of its own and
\* this.eventListeners.clear() follows the loop
RemainingAfterSweep(ls, fails) == {}

\* variant: one try/catch around the whole loop, which ends at the first throw
DestroyAttempted_UntilFirstThrow(ids, fails) ==
    {i \in ids : \A j \in fails \cap ids : i <= j}

\* forceCloseConnections: the try/catch is inside the forEach, so destroy() is
\* called on every tracked connection, in the order of the registry
DestroyAttempted(ids, fails) == ids

\* forceCloseConnections when destroy() throws for the sockets in fails: the
\* others that are open are destroyed
DestroyedExcept(fails) ==
    LET tried == DestroyAttempted(DOMAIN activeConnections, fails)
    IN [i \in ConnIds |-> IF i \in tried \ fails /\ sockets[i] = "open"
                          THEN "destroyed" ELSE sockets[i]]

\* n errors pushed to the list errs
PushErrors(errs, n) == errs \o [i \in 1..n |-> "Error"]

\* forceCloseConnections: this.shutdownErrors.push(error) in the catch
DestroyErrors(errs, fails) ==
    PushErrors(errs, Cardinality(DestroyAttempted(DOMAIN activeConnections, fails)
                                     \cap fails))

\* forceCloseConnections: socket.destroy() on every tracked connection
DestroyTracked == DestroyedExcept({})

\* forceShutdown(code), called after esc exceptions were thrown in this step:
\* forceCloseConnections, clearTimeout and clearInterval on the tracked timers
\* and intervals, then the exit timer; a listener of 'connections-force-closed'
\* or of 'force-shutdown' that throws ends the call there
ForceShutdown(code, esc) ==
    LET thrown == IF Throws("connections-force-closed") \/ Throws("force-shutdown")
                  THEN 1 ELSE 0
    IN /\ forceCodes' = Append(forceCodes, code)
       /\ sockets' = DestroyTracked
       /\ activeConnections' = ForceClosedRegistry(activeConnections)
       /\ escaped' = escaped + esc + thrown
       /\ uncaught' = uncaught + thrown
       /\ IF Throws("connections-force-closed")
          THEN UNCHANGED <<graceTimer, graceRemaining, released>>
          ELSE /\ released' = ReleasedBy(released, timers \cup intervals)
               /\ graceTimer' = IF "grace" \in timers THEN ClearTimeout(graceTimer)
                                ELSE graceTimer
               /\ graceRemaining' = IF graceTimer' = "armed" THEN graceRemaining ELSE 0
       /\ forceQueue' = IF thrown = 1 THEN forceQueue ELSE Append(forceQueue, code)

\* what a step without forceShutdown and without a thrown exception leaves alone
NoFault == UNCHANGED <<forceQueue, forceCodes, escaped, uncaught>>

\* ---- registration API --------------------------------------------------------
\* registerServer(srv) before any trigger; a call with an invalid server or
\* when a server is registered throws before anything is set up, and a caller
\* that counts (noted) counts the exception
RegisterServerCall(srv, noted) ==
    /\ Quiescent
    /\ ~shutdownInitiated
    /\ IF ~ValidServer(srv) \/ AlreadyRegistered
       THEN /\ noted => refused < MaxRefused
            /\ refused' = IF noted THEN refused + 1 ELSE refused
            /\ UNCHANGED <<server, listening, closeCallback, resVars>>
       ELSE /\ server' = srv
            /\ listening' = TRUE
            /\ signalHandlers' = Signals
            /\ processListeners' = AddHandlers(processListeners, Signals \cup Faults)
            /\ UNCHANGED <<refused, closeCallback, timers>>
    /\ UNCHANGED <<coordVars, regVars, sockVars, now,
                   connLimit, request, cbVars,
                   graceVars, seqVars, taskVars, exitVars, obsVars, trackVars,
                   faultVars>>

\* registerServer with the host's server
RegisterServer == RegisterServerCall("registered", FALSE)

\* onResourceCleanup(callback), while the coordinator is active and fewer than
\* limit callbacks are registered
RegisterCleanupCallback(limit) ==
    /\ Quiescent
    /\ ~shutdownInitiated
    /\ nRC < limit
    /\ nRC' = nRC + 1
    /\ UNCHANGED <<coordVars, regVars, sockVars, now,
                   connLimit, request,
                   srvVars, resVars, nSC,
                   graceVars, seqVars, taskVars, exitVars, obsVars, trackVars,
                   faultVars>>

OnResourceCleanup == RegisterCleanupCallback(MaxRC)

\* onShutdown(callback), while the coordinator is active and fewer than limit
\* callbacks are registered
RegisterShutdownCallback(limit) ==
    /\ Quiescent
    /\ ~shutdownInitiated
    /\ nSC < limit
    /\ nSC' = nSC + 1
    /\ UNCHANGED <<coordVars, regVars, sockVars, now,
                   connLimit, request,
                   srvVars, resVars, nRC,
                   graceVars, seqVars, taskVars, exitVars, obsVars, trackVars,
                   faultVars>>

OnShutdown == RegisterShutdownCallback(MaxSC)

\* ---- connection registry -----------------------------------------------------
\* server 'connection' event
NewConnection ==
    /\ Quiescent
    /\ server # "none"
    /\ listening
    /\ connectionCounter < MaxConnCounter
    /\ LET id == connectionCounter + 1
           full == LimitReached(activeConnections)
       IN /\ connectionCounter' = id
          /\ maxConnectionsReached' = (maxConnectionsReached \/ full)
          /\ IF full /\ state = ACTIVE
             THEN /\ sockets' = [sockets EXCEPT ![id] = "rejected"]
                  /\ UNCHANGED <<activeConnections, idleTimer>>
             ELSE /\ activeConnections' = Registered(activeConnections, id, now)
                  /\ idleTimer' = [idleTimer EXCEPT ![id] = connectionTimeoutMs]
                  /\ sockets' = [sockets EXCEPT ![id] = "open"]
    /\ UNCHANGED <<coordVars, notified, removeCalls, now, connLimit, request,
                   srvVars, resVars,
                   cbVars, graceVars, seqVars,
                   taskVars, exitVars, obsVars, trackVars, faultVars>>

\* socket 'data' event
SocketData(id) ==
    /\ Quiescent
    /\ sockets[id] = "open"
    /\ id \in DOMAIN activeConnections
    /\ activeConnections[id].requestCount < MaxRequests
    /\ activeConnections' = [activeConnections EXCEPT
                                ![id].lastActivity = now,
                                ![id].requestCount = @ + 1]
    /\ UNCHANGED <<coordVars, connectionCounter, notified,
                removeCalls, maxConnectionsReached, sockVars, now, connLimit, request,
                   srvVars, resVars, cbVars, graceVars, seqVars, taskVars, exitVars,
                   obsVars, trackVars, faultVars>>

\* removeConnection(id), with idle the idle timers as its caller left them and
\* fails the tracked listeners whose removeListener throws during a sweep
RemoveConnection(id, idle, fails) ==
    /\ removeCalls' = [removeCalls EXCEPT ![id] = @ + 1]
    /\ IF HasConnection(activeConnections, id)
       THEN LET conns == Without(activeConnections, id)
                fires == subscribed /\ CheckConnectionsEmpty(conns)
                toCleanup == DrainingComplete(state, conns)
                timers1 == IF fires THEN timers \ {"grace"} ELSE timers
                grace1 == IF fires THEN ClearTimeout(graceTimer) ELSE graceTimer
                released1 == IF fires THEN ReleasedBy(released, {"grace"}) ELSE released
            IN /\ idleTimer' = [idle EXCEPT ![id] = -1]
               /\ activeConnections' = conns
               /\ maxConnectionsReached' =
                     IF BelowThreshold(conns) THEN FALSE ELSE maxConnectionsReached
               \* emit('connection-removed'): checkConnections
               /\ notified' = [notified EXCEPT ![id] = @ + 1]
               /\ drainResolved' = (drainResolved \/ fires)
               /\ drainOutcome' = IF fires /\ drainOutcome = "none" THEN "natural"
                                 ELSE drainOutcome
               /\ resolveCalls' = IF fires THEN resolveCalls + 1 ELSE resolveCalls
               \* transitionToCleanup and the synchronous part of performResourceCleanup
               /\ IF toCleanup
                  THEN /\ state' = CLEANUP
                       /\ transitionCalls' = transitionCalls + 1
                       /\ IF Throws("cleanup-started")
                          THEN /\ escaped' = escaped + 1
                               /\ uncaught' = uncaught + 1
                               /\ timers' = timers1
                               /\ graceTimer' = grace1
                               /\ released' = released1
                               /\ UNCHANGED <<intervals, eventListeners, failedReleases,
                                              processListeners, signalHandlers, pcB, tasks,
                                              rcInvoked, cleanupStarts>>
                          ELSE /\ timers' = {}
                               /\ intervals' = {}
                               /\ eventListeners' = RemainingAfterSweep(eventListeners, fails)
                               /\ failedReleases' = failedReleases \cup fails
                               /\ released' = ReleasedBy(released1,
                                                 timers1 \cup intervals \cup eventListeners)
                               /\ graceTimer' = IF "grace" \in timers1 THEN ClearTimeout(grace1)
                                                ELSE grace1
                               /\ processListeners' = RemoveHandlers(processListeners, signalHandlers)
                               /\ signalHandlers' = {}
                               /\ pcB' = "cleanup"
                               /\ tasks' = tasks \cup StartedTasks("B", "rc", nRC)
                               /\ rcInvoked' = Invoke(rcInvoked, nRC)
                               /\ cleanupStarts' = cleanupStarts + 1
                               /\ UNCHANGED <<escaped, uncaught>>
                  ELSE /\ timers' = timers1
                       /\ graceTimer' = grace1
                       /\ released' = released1
                       /\ UNCHANGED <<state, processListeners, signalHandlers, pcB, tasks,
                                      rcInvoked, cleanupStarts, transitionCalls, intervals,
                                      eventListeners, failedReleases, escaped, uncaught>>
               /\ graceRemaining' = IF graceTimer' = "armed" THEN graceRemaining ELSE 0
       ELSE /\ idleTimer' = idle
            /\ UNCHANGED <<activeConnections, maxConnectionsReached, notified, drainResolved,
                           drainOutcome, graceRemaining, state, timers, graceTimer,
                           processListeners, signalHandlers, pcB, tasks, rcInvoked,
                           cleanupStarts, resolveCalls, transitionCalls, trackVars,
                           escaped, uncaught>>

\* what removeConnection leaves alone
RemoveFrame ==
    UNCHANGED <<shutdownInitiated, shutdownStartTime, shutdownErrors, connectionCounter,
                now,
                connLimit, request, srvVars, cbVars, subscribed, pcA, acceptResolved,
                seqSignal,
                seqError, scInvoked, exitVars, drainEntry, seqStarts, forceCloseByTimer,
                triggerCount, throwing, forceQueue, forceCodes>>

\* socket 'close' event
SocketClose(id) ==
    /\ Quiescent
    /\ sockets[id] \in {"open", "destroyed"}
    /\ sockets' = [sockets EXCEPT ![id] = "closed"]
    /\ \E fails \in SUBSET eventListeners : RemoveConnection(id, idleTimer, fails)
    /\ RemoveFrame

\* socket 'error' event; the transport is destroyed and its 'close' follows
SocketError(id) ==
    /\ Quiescent
    /\ sockets[id] = "open"
    /\ sockets' = [sockets EXCEPT ![id] = "destroyed"]
    /\ \E fails \in SUBSET eventListeners : RemoveConnection(id, idleTimer, fails)
    /\ RemoveFrame

\* the idle timeout of a connection fires: handleConnectionTimeout
ConnectionTimeout(id) ==
    /\ Quiescent
    /\ idleTimer[id] = 0
    /\ sockets' = IF id \in DOMAIN activeConnections /\ sockets[id] = "open"
                  THEN [sockets EXCEPT ![id] = "destroyed"] ELSE sockets
    /\ \E fails \in SUBSET eventListeners :
          RemoveConnection(id, [idleTimer EXCEPT ![id] = -1], fails)
    /\ RemoveFrame

\* time passes: Date.now() advances and armed timers count down
Tick ==
    /\ Quiescent
    /\ \/ now < MaxTime
       \/ graceTimer = "armed" /\ graceRemaining > 0
       \/ \E i \in ConnIds : idleTimer[i] > 0
    /\ now' = Min(now + 1, MaxTime)
    /\ UNCHANGED <<connLimit, request>>
    /\ graceRemaining' = IF graceRemaining > 0 THEN graceRemaining - 1 ELSE 0
    /\ idleTimer' = [i \in ConnIds |-> IF idleTimer[i] > 0 THEN idleTimer[i] - 1
                                        ELSE idleTimer[i]]
    /\ UNCHANGED <<coordVars, regVars, sockets, srvVars, resVars, cbVars, graceTimer,
                   subscribed, seqVars, taskVars, exitVars, obsVars, trackVars,
                   faultVars>>

\* ---- triggers ----------------------------------------------------------------
\* handleSignal(signal, error) up to its first await: the guard, then
\* executeShutdownSequence and the synchronous part of stopAcceptingConnections;
\* an exception thrown by a listener reaches the catch of handleSignal before
\* the next macrotask
HandleSignal(signal, err) ==
    /\ triggerCount < MaxTriggers
    /\ triggerCount' = triggerCount + 1
    /\ IF GuardBlocks
       THEN /\ UNCHANGED <<coordVars, srvVars, seqVars, seqStarts, activeConnections,
                           sockets, graceTimer, graceRemaining, released>>
            /\ NoFault
       ELSE /\ shutdownInitiated' = TRUE
            /\ shutdownStartTime' = now
            /\ state' = SHUTDOWN_PENDING
            /\ IF Throws("shutdown-initiated")
               THEN /\ shutdownErrors' = Append(shutdownErrors, "Error")
                    /\ ForceShutdown(SIGNAL_ERROR, 1)
                    /\ UNCHANGED <<srvVars, seqVars, seqStarts>>
               ELSE /\ seqStarts' = seqStarts + 1
                    /\ seqSignal' = signal
                    /\ seqError' = err
                    /\ UNCHANGED <<server, refused, drainResolved, pcB>>
                    /\ IF server = "none"
                       THEN /\ acceptResolved' = TRUE
                            /\ pcA' = "stopAccept"
                            /\ UNCHANGED <<listening, closeCallback>>
                       ELSE /\ acceptResolved' = FALSE
                            /\ listening' = FALSE
                            /\ closeCallback' = "pending"
                            /\ pcA' = IF Throws("server-closed") THEN "failed"
                                      ELSE "stopAccept"
                    /\ IF server # "none" /\ Throws("server-closed")
                       THEN /\ shutdownErrors' = Append(shutdownErrors, "Error")
                            /\ ForceShutdown(SIGNAL_ERROR, 1)
                       ELSE /\ UNCHANGED <<shutdownErrors, activeConnections, sockets,
                                           graceTimer, graceRemaining, released>>
                            /\ NoFault
    /\ UNCHANGED <<connectionCounter, notified,
                removeCalls, maxConnectionsReached, idleTimer, now,
                connLimit, request, resVars,
                   cbVars, subscribed, taskVars, exitVars, drainEntry, drainOutcome,
                   cleanupStarts, forceCloseByTimer, resolveCalls, transitionCalls,
                   intervals, eventListeners, failedReleases, throwing>>

\* a termination signal the process has a coordinator handler for
Signal(sig) ==
    /\ Quiescent
    /\ processListeners[sig] > 0
    /\ HandleSignal(sig, FALSE)

\* a termination signal with no handler installed: the default action ends the process
SignalDefault(sig) ==
    /\ Quiescent
    /\ processListeners[sig] = 0
    /\ exited' = TRUE
    /\ exitVia' = "signal"
    /\ UNCHANGED <<coordVars, regVars, sockVars, now,
                   connLimit, request,
                   srvVars, resVars, cbVars,
                   graceVars, seqVars, taskVars, exitCode, outcomeSignal, obsVars,
                   trackVars, faultVars>>

\* process 'uncaughtException' / 'unhandledRejection' handlers of setupSignalHandlers
Fault(kind) ==
    /\ Quiescent
    /\ processListeners[kind] > 0
    /\ HandleSignal(kind, TRUE)

\* shutdown(reason) handing handleSignal an error argument
Shutdown_WithError ==
    /\ Quiescent
    /\ HandleSignal("PROGRAMMATIC", TRUE)

\* shutdown(reason)
Shutdown ==
    /\ Quiescent
    /\ HandleSignal("PROGRAMMATIC", FALSE)

\* the close callback resolving only when the close succeeded
ResolvesAfterClose_OnlyOnSuccess(error) == ~error

\* stopAcceptingConnections: resolve() follows both branches of the callback
ResolvesAfterClose(error) == TRUE

\* the callback given to server.close runs
ServerCloseCallback(error) ==
    /\ Quiescent
    /\ closeCallback = "pending"
    /\ closeCallback' = "fired"
    /\ shutdownErrors' = IF error THEN Append(shutdownErrors, "Error") ELSE shutdownErrors
    /\ acceptResolved' = ResolvesAfterClose(error)
    /\ UNCHANGED <<state, shutdownInitiated, shutdownStartTime, regVars, sockVars, now,
                   connLimit, request,
                   server, refused, listening, resVars, cbVars, graceVars, pcA,
                   drainResolved,
                   seqSignal, seqError, pcB, taskVars, exitVars, obsVars, trackVars,
                   faultVars>>

\* ---- the shutdown sequence ---------------------------------------------------
\* executeShutdownSequence resumes after stopAcceptingConnections: drainConnections
DrainConnections ==
    /\ ~exited
    /\ pcA = "stopAccept" /\ acceptResolved
    /\ drainEntry' = IF Size(activeConnections) = 0 THEN "empty" ELSE "waiting"
    /\ IF RegistryEmptyAtEntry
       THEN /\ pcA' = "drain"
            /\ drainResolved' = TRUE
            /\ drainOutcome' = "immediate"
            /\ UNCHANGED <<state, shutdownErrors, timers, graceVars, resolveCalls,
                           activeConnections, sockets, released>>
            /\ NoFault
       ELSE /\ state' = DRAINING
            /\ IF Throws("draining-started")
               THEN /\ pcA' = "failed"
                    /\ shutdownErrors' = Append(shutdownErrors, "Error")
                    /\ ForceShutdown(SIGNAL_ERROR, 1)
                    /\ UNCHANGED <<timers, subscribed, drainResolved, drainOutcome,
                                   resolveCalls>>
               ELSE LET fires == CheckConnectionsEmpty(activeConnections)
                    IN /\ pcA' = "drain"
                       /\ graceTimer' = IF fires THEN ClearTimeout("armed") ELSE "armed"
                       /\ graceRemaining' = IF graceTimer' = "armed" THEN gracePeriodMs
                                            ELSE 0
                       /\ timers' = IF fires THEN timers \ {"grace"}
                                    ELSE timers \cup {"grace"}
                       /\ released' = IF fires THEN ReleasedBy(released, {"grace"})
                                      ELSE released
                       /\ drainResolved' = fires
                       /\ drainOutcome' = IF fires THEN "natural" ELSE "none"
                       /\ resolveCalls' = IF fires THEN 1 ELSE 0
                       /\ subscribed' = TRUE
                       /\ UNCHANGED <<shutdownErrors, activeConnections, sockets>>
                       /\ NoFault
    /\ UNCHANGED <<shutdownInitiated, shutdownStartTime, connectionCounter, notified,
                removeCalls,
                   maxConnectionsReached, idleTimer, now,
                   connLimit, request, srvVars, signalHandlers,
                   processListeners, cbVars, acceptResolved, seqSignal, seqError, pcB,
                   taskVars, exitVars, seqStarts, cleanupStarts, forceCloseByTimer,
                   transitionCalls, triggerCount, intervals, eventListeners,
                   failedReleases, throwing>>

\* variant: the grace timer is never due
GraceExpired_Never(remaining) == FALSE

\* setTimeout(..., this.config.gracePeriodMs): the timer is due when its delay has passed
GraceExpired(remaining) == remaining = 0

\* the grace timer fires: forceCloseConnections, then resolve; a listener of
\* 'connections-force-closed' that throws ends the callback before resolve
ForceCloseTimeout(fails) ==
    /\ Quiescent
    /\ graceTimer = "armed" /\ GraceExpired(graceRemaining)
    /\ graceTimer' = "fired"
    /\ sockets' = DestroyedExcept(fails)
    /\ shutdownErrors' = DestroyErrors(shutdownErrors, fails)
    /\ activeConnections' = ForceClosedRegistry(activeConnections)
    /\ forceCloseByTimer' = forceCloseByTimer + 1
    /\ IF Throws("connections-force-closed")
       THEN /\ escaped' = escaped + 1
            /\ uncaught' = uncaught + 1
            /\ UNCHANGED <<drainResolved, drainOutcome, resolveCalls>>
       ELSE /\ drainResolved' = TRUE
            /\ drainOutcome' = IF drainOutcome = "none" THEN "forced" ELSE drainOutcome
            /\ resolveCalls' = resolveCalls + 1
            /\ UNCHANGED <<escaped, uncaught>>
    /\ UNCHANGED <<state, shutdownInitiated, shutdownStartTime, connectionCounter, notified,
                removeCalls, maxConnectionsReached, idleTimer, now, connLimit, request,
                   srvVars, resVars, cbVars, graceRemaining, subscribed, pcA,
                   acceptResolved, seqSignal, seqError, pcB, taskVars, exitVars,
                   drainEntry, seqStarts, cleanupStarts, transitionCalls, triggerCount,
                   trackVars, throwing, forceQueue, forceCodes>>

\* the grace timer with sockets whose destroy() does not throw
GraceTimeout == ForceCloseTimeout({})

\* executeShutdownSequence resumes after drainConnections: performResourceCleanup
\* up to its await of the resource-cleanup callbacks
PerformResourceCleanup ==
    /\ ~exited
    /\ pcA = "drain" /\ drainResolved
    /\ pcA' = "cleanup"
    /\ \E fails \in SUBSET eventListeners :
          /\ eventListeners' = RemainingAfterSweep(eventListeners, fails)
          /\ failedReleases' = failedReleases \cup fails
    /\ timers' = {}
    /\ intervals' = {}
    /\ released' = ReleasedBy(released, timers \cup intervals \cup eventListeners)
    /\ graceTimer' = IF "grace" \in timers THEN ClearTimeout(graceTimer) ELSE graceTimer
    /\ graceRemaining' = IF graceTimer' = "armed" THEN graceRemaining ELSE 0
    /\ processListeners' = RemoveHandlers(processListeners, signalHandlers)
    /\ signalHandlers' = {}
    /\ tasks' = tasks \cup StartedTasks("A", "rc", nRC)
    /\ rcInvoked' = Invoke(rcInvoked, nRC)
    /\ cleanupStarts' = cleanupStarts + 1
    /\ UNCHANGED <<coordVars, regVars, sockVars, now,
                   connLimit, request,
                   srvVars, cbVars, subscribed,
                   acceptResolved, drainResolved, seqSignal, seqError, pcB, scInvoked,
                   exitVars, drainEntry, drainOutcome, seqStarts, forceCloseByTimer,
                   resolveCalls, transitionCalls, triggerCount, faultVars>>

\* variant: without the try/catch of the wrapper a rejection settles the
\* Promise.all at once and the other invocations of the phase are not awaited
AfterSettle_FailFast(ts, t, outcome) ==
    IF outcome = "ok" THEN ts \ {t}
    ELSE {u \in ts : ~(u[1] = t[1] /\ u[2] = t[2])}

\* the invocations still awaited once t has settled: each wrapper catches the
\* rejection of its own callback, so only t leaves
AfterSettle(ts, t, outcome) == ts \ {t}

\* a started callback settles; a rejection is caught and its error recorded
TaskSettle(t, outcome) ==
    /\ Quiescent
    /\ t \in tasks
    /\ tasks' = AfterSettle(tasks, t, outcome)
    /\ shutdownErrors' = IF outcome = "ok" THEN shutdownErrors
                         ELSE Append(shutdownErrors, outcome)
    /\ UNCHANGED <<state, shutdownInitiated, shutdownStartTime, regVars, sockVars, now,
                   connLimit, request,
                   
                   srvVars, resVars, cbVars, graceVars, seqVars, rcInvoked, scInvoked,
                   exitVars, obsVars, trackVars, faultVars>>

\* executeShutdownCallbacks: the invocations started by one chain
StartShutdownCallbacks(chain) ==
    /\ tasks' = tasks \cup StartedTasks(chain, "sc", nSC)
    /\ scInvoked' = Invoke(scInvoked, nSC)

\* completeShutdown(signal, error)
CompleteShutdown(signal, err) ==
    /\ state' = TERMINATION
    /\ outcomeSignal' = signal
    /\ exitCode' = ExitCodeFor(err, shutdownErrors)
    /\ exitVia' = "completeShutdown"
    /\ exited' = TRUE

\* what a continuation of a chain leaves alone when no listener throws in it
NoForce ==
    /\ UNCHANGED <<activeConnections, sockets, graceTimer, graceRemaining, released>>
    /\ NoFault

\* what the continuations of the two chains never change
ChainFrame ==
    UNCHANGED <<shutdownInitiated, shutdownStartTime, connectionCounter, notified,
                removeCalls,
                maxConnectionsReached, idleTimer, now,
                connLimit, request, srvVars, resVars, cbVars,
                subscribed, acceptResolved, drainResolved, seqSignal, seqError,
                rcInvoked, obsVars, intervals, eventListeners, failedReleases, throwing>>

\* executeShutdownSequence resumes after performResourceCleanup, whose
\* emit('cleanup-completed') may throw: performResourceCleanup records the error
\* and rethrows, handleSignal records it again and calls forceShutdown
ExecuteShutdownCallbacks ==
    /\ ~exited
    /\ pcA = "cleanup" /\ TasksOf("A", "rc") = {}
    /\ ~(pcB = "cleanup" /\ TasksOf("B", "rc") = {})
    /\ IF Throws("cleanup-completed")
       THEN /\ pcA' = "failed"
            /\ shutdownErrors' = shutdownErrors \o <<"Error", "Error">>
            /\ ForceShutdown(SIGNAL_ERROR, 1)
            /\ UNCHANGED <<tasks, scInvoked>>
       ELSE /\ pcA' = "callbacks"
            /\ StartShutdownCallbacks("A")
            /\ UNCHANGED shutdownErrors
            /\ NoForce
    /\ UNCHANGED <<state, pcB, exitVars>>
    /\ ChainFrame

\* executeShutdownSequence resumes after executeShutdownCallbacks (which emits
\* 'shutdown-callbacks-completed' when there are callbacks): completeShutdown
SequenceComplete ==
    /\ ~exited
    /\ pcA = "callbacks" /\ TasksOf("A", "sc") = {}
    /\ IF nSC > 0 /\ Throws("shutdown-callbacks-completed")
       THEN /\ pcA' = "failed"
            /\ shutdownErrors' = Append(shutdownErrors, "Error")
            /\ ForceShutdown(SIGNAL_ERROR, 1)
            /\ UNCHANGED <<state, exitVars>>
       ELSE IF Throws("shutdown-completed")
       THEN /\ pcA' = "failed"
            /\ state' = TERMINATION
            /\ shutdownErrors' = Append(shutdownErrors, "Error")
            /\ ForceShutdown(SIGNAL_ERROR, 1)
            /\ UNCHANGED exitVars
       ELSE /\ pcA' = "done"
            /\ CompleteShutdown(seqSignal, seqError)
            /\ UNCHANGED shutdownErrors
            /\ NoForce
    /\ UNCHANGED <<pcB, taskVars>>
    /\ ChainFrame

\* transitionToCleanup: .then(() => this.executeShutdownCallbacks()), after
\* performResourceCleanup whose emit('cleanup-completed') may throw: the error is
\* recorded, and the .catch of the chain calls forceShutdown
CleanupThenCallbacks ==
    /\ ~exited
    /\ pcB = "cleanup" /\ TasksOf("B", "rc") = {}
    /\ ~(pcA = "drain" /\ drainResolved)
    /\ IF Throws("cleanup-completed")
       THEN /\ pcB' = "failed"
            /\ shutdownErrors' = Append(shutdownErrors, "Error")
            /\ ForceShutdown(RESOURCE_CLEANUP_FAILED, 1)
            /\ UNCHANGED <<tasks, scInvoked>>
       ELSE /\ pcB' = "callbacks"
            /\ StartShutdownCallbacks("B")
            /\ UNCHANGED shutdownErrors
            /\ NoForce
    /\ UNCHANGED <<state, pcA, exitVars>>
    /\ ChainFrame

\* transitionToCleanup: .then(() => this.completeShutdown()) and the .catch
CleanupThenComplete ==
    /\ ~exited
    /\ pcB = "callbacks" /\ TasksOf("B", "sc") = {}
    /\ ~(pcA = "cleanup" /\ TasksOf("A", "rc") = {})
    /\ ~(pcA = "callbacks" /\ TasksOf("A", "sc") = {})
    /\ IF nSC > 0 /\ Throws("shutdown-callbacks-completed")
       THEN /\ pcB' = "failed"
            /\ ForceShutdown(RESOURCE_CLEANUP_FAILED, 1)
            /\ UNCHANGED <<state, exitVars>>
       ELSE IF Throws("shutdown-completed")
       THEN /\ pcB' = "failed"
            /\ state' = TERMINATION
            /\ ForceShutdown(RESOURCE_CLEANUP_FAILED, 1)
            /\ UNCHANGED exitVars
       ELSE /\ pcB' = "done"
            /\ CompleteShutdown("UNKNOWN", FALSE)
            /\ NoForce
    /\ UNCHANGED <<shutdownErrors, pcA, taskVars>>
    /\ ChainFrame

\* the exit timer of forceShutdown fires: process.exit(exitCode)
ForceExit ==
    /\ Quiescent
    /\ forceQueue # <<>>
    /\ exited' = TRUE
    /\ exitCode' = Head(forceQueue)
    /\ exitVia' = "forceShutdown"
    /\ forceQueue' = Tail(forceQueue)
    /\ UNCHANGED <<coordVars, regVars, sockVars, now,
                   connLimit, request,
                   srvVars, resVars, cbVars,
                   graceVars, seqVars, taskVars, outcomeSignal, obsVars, trackVars,
                   throwing, forceCodes, escaped, uncaught>>

\* ---- resource tracker and host listeners ------------------------------------
\* trackTimer(timer), while the coordinator is active
TrackTimer(t) ==
    /\ Quiescent
    /\ ~shutdownInitiated
    /\ t \notin timers
    /\ timers' = timers \cup {t}
    /\ UNCHANGED <<coordVars, regVars, sockVars, now,
                   connLimit, request,
                   srvVars, signalHandlers,
                   processListeners, cbVars, graceVars, seqVars, taskVars, exitVars,
                   obsVars, intervals, eventListeners, released, failedReleases,
                   faultVars>>

\* trackInterval(interval), while the coordinator is active
TrackInterval(i) ==
    /\ Quiescent
    /\ ~shutdownInitiated
    /\ i \notin intervals
    /\ intervals' = intervals \cup {i}
    /\ UNCHANGED <<coordVars, regVars, sockVars, now,
                   connLimit, request,
                   srvVars, resVars, cbVars,
                   graceVars, seqVars, taskVars, exitVars, obsVars, eventListeners,
                   released, failedReleases, faultVars>>

\* trackEventListener(target, event, handler), while the coordinator is active
TrackEventListener ==
    /\ Quiescent
    /\ ~shutdownInitiated
    /\ Cardinality(eventListeners) < Len(UserListeners)
    /\ eventListeners' = eventListeners \cup {UserListeners[Cardinality(eventListeners) + 1]}
    /\ UNCHANGED <<coordVars, regVars, sockVars, now,
                   connLimit, request,
                   srvVars, resVars, cbVars,
                   graceVars, seqVars, taskVars, exitVars, obsVars, intervals,
                   released, failedReleases, faultVars>>

\* ---- request handler (src/server.js) -------------------------------------------
\* the status code of the error classes given to handleError
VALIDATION_STATUS == 400
TIMEOUT_STATUS == 408
INTERNAL_STATUS == 500
UNAVAILABLE_STATUS == 503
OK_STATUS == 200

\* the shutdown check that never rejects
RejectsRequest_Never(down) == FALSE

\* requestHandler: if (isShuttingDown())
RejectsRequest(down) == down

\* requestHandler is called for a request on an open connection, down being
\* what isShuttingDown() returns: up to the await of validateRequest
RequestStart(id, down) ==
    /\ ~exited
    /\ sockets[id] = "open"
    /\ request.pc \in {"idle", "done"}
    /\ request' =
          IF RejectsRequest(down)
          THEN [NoRequest EXCEPT !.pc = "done", !.down = down, !.headersSent = TRUE,
                                 !.status = UNAVAILABLE_STATUS,
                                 !.path = "rejected",
                                 !.registerCalls = 1,
                                 !.entry = EntryAfterHandler("rejected"),
                                 !.unregisterCalls =
                                     UnregisterCallsAfterHandler("rejected")]
          ELSE [NoRequest EXCEPT !.pc = "validating", !.down = down,
                                 !.validated = TRUE, !.timer = "armed",
                                 !.registerCalls = 1, !.entry = TRUE]
    /\ UNCHANGED <<coordVars, regVars, sockVars, now, connLimit, srvVars, resVars,
                   cbVars, graceVars, seqVars, taskVars, exitVars, obsVars, trackVars,
                   faultVars>>

\* the request timeout fires while validateRequest is pending
RequestTimeout ==
    /\ ~exited
    /\ request.pc = "validating"
    /\ request.timer = "armed"
    /\ request' = [request EXCEPT !.timer = "fired", !.headersSent = TRUE,
                                  !.status = TIMEOUT_STATUS]
    /\ UNCHANGED <<coordVars, regVars, sockVars, now, connLimit, srvVars, resVars,
                   cbVars, graceVars, seqVars, taskVars, exitVars, obsVars, trackVars,
                   faultVars>>

\* validateRequest settles: the rest of requestHandler; once the headers are
\* sent neither handleError nor the handler changes the response
ValidationSettle(outcome) ==
    /\ ~exited
    /\ request.pc = "validating"
    /\ request' =
          [request EXCEPT
              !.pc = "done",
              !.timer = ClearTimeout(@),
              !.processed = (outcome = "ok"),
              !.path = PathAfterValidation(outcome, request.headersSent),
              !.entry = EntryAfterHandler(PathAfterValidation(outcome,
                                                              request.headersSent)),
              !.unregisterCalls = UnregisterCallsAfterHandler(
                                      PathAfterValidation(outcome,
                                                          request.headersSent)),
              !.headersSent = TRUE,
              !.status = IF request.headersSent THEN @
                         ELSE IF outcome = "ok" THEN OK_STATUS
                         ELSE IF outcome = "ValidationError" THEN VALIDATION_STATUS
                         ELSE INTERNAL_STATUS]
    /\ UNCHANGED <<coordVars, regVars, sockVars, now, connLimit, srvVars, resVars,
                   cbVars, graceVars, seqVars, taskVars, exitVars, obsVars, trackVars,
                   faultVars>>

\* coordinator.on(ev, listener) with a listener that throws, registered by the
\* host once its server is registered, while fewer than limit events have one
ThrowingListener(ev, limit) ==
    /\ Quiescent
    /\ ~shutdownInitiated
    /\ server # "none"
    /\ ev \notin throwing
    /\ Cardinality(throwing) < limit
    /\ throwing' = throwing \cup {ev}
    /\ UNCHANGED <<coordVars, regVars, sockVars, now,
                   connLimit, request,
                   srvVars, resVars, cbVars,
                   graceVars, seqVars, taskVars, exitVars, obsVars, trackVars,
                   forceQueue, forceCodes, escaped, uncaught>>

OnThrowingListener(ev) == ThrowingListener(ev, MaxThrowing)

Next ==
    \/ RegisterServer
    \/ OnResourceCleanup
    \/ OnShutdown
    \/ NewConnection
    \/ \E id \in ConnIds : SocketData(id)
    \/ \E id \in ConnIds : SocketClose(id)
    \/ \E id \in ConnIds : SocketError(id)
    \/ \E id \in ConnIds : ConnectionTimeout(id)
    \/ Tick
    \/ \E sig \in Signals : Signal(sig)
    \/ \E sig \in Signals : SignalDefault(sig)
    \/ \E kind \in Faults : Fault(kind)
    \/ Shutdown
    \/ \E error \in BOOLEAN : ServerCloseCallback(error)
    \/ DrainConnections
    \/ GraceTimeout
    \/ PerformResourceCleanup
    \/ \E t \in tasks, outcome \in {"ok"} \cup ErrorNames : TaskSettle(t, outcome)
    \/ ExecuteShutdownCallbacks
    \/ SequenceComplete
    \/ CleanupThenCallbacks
    \/ CleanupThenComplete

Spec == Init /\ [][Next]_vars

\* ---- the resource tracker and the forced path --------------------------------
\* a host that tracks handles and listens to the shutdown events, with at most
\* MaxResConn connections and SIGTERM as the trigger
NextRes ==
    \/ RegisterServer
    \/ \E t \in UserTimers : TrackTimer(t)
    \/ \E i \in UserIntervals : TrackInterval(i)
    \/ TrackEventListener
    \/ \E ev \in Events : OnThrowingListener(ev)
    \/ OnResourceCleanup
    \/ OnShutdown
    \/ NewConnection /\ connectionCounter < MaxResConn
    \/ \E id \in ConnIds : SocketClose(id)
    \/ \E id \in ConnIds : ConnectionTimeout(id)
    \/ Tick
    \/ Signal("SIGTERM")
    \/ ServerCloseCallback(FALSE)
    \/ DrainConnections
    \/ GraceTimeout
    \/ PerformResourceCleanup
    \/ \E t \in tasks : TaskSettle(t, "ok")
    \/ ExecuteShutdownCallbacks
    \/ SequenceComplete
    \/ CleanupThenCallbacks
    \/ CleanupThenComplete
    \/ ForceExit

SpecRes == Init /\ [][NextRes]_vars

\* ---- sockets whose destroy() throws ---------------------------------------------
NextDestroy ==
    \/ RegisterServer
    \/ NewConnection
    \/ \E id \in ConnIds : SocketClose(id)
    \/ Tick
    \/ Signal("SIGTERM")
    \/ ServerCloseCallback(FALSE)
    \/ DrainConnections
    \/ \E fails \in SUBSET ConnIds : ForceCloseTimeout(fails)
    \/ OnResourceCleanup
    \/ \E t \in tasks : TaskSettle(t, "ok")
    \/ PerformResourceCleanup
    \/ ExecuteShutdownCallbacks
    \/ SequenceComplete
    \/ CleanupThenCallbacks
    \/ CleanupThenComplete

SpecDestroy == Init /\ [][NextDestroy]_vars

\* ---- callers of registerServer ---------------------------------------------------
NextRegister ==
    \/ \E srv \in ServerArgs : RegisterServerCall(srv, TRUE)
    \/ NewConnection
    \/ \E id \in ConnIds : SocketClose(id)
    \/ Tick
    \/ Signal("SIGTERM")
    \/ ServerCloseCallback(FALSE)
    \/ DrainConnections
    \/ GraceTimeout
    \/ OnResourceCleanup
    \/ \E t \in tasks : TaskSettle(t, "ok")
    \/ PerformResourceCleanup
    \/ ExecuteShutdownCallbacks
    \/ SequenceComplete
    \/ CleanupThenCallbacks
    \/ CleanupThenComplete

SpecRegister == Init /\ [][NextRegister]_vars

\* ---- several listeners that throw ---------------------------------------------
\* one connection and up to MaxThrowingWide events with a listener that throws,
\* so that forceShutdown itself can meet a throwing listener
NextFaults ==
    \/ RegisterServer
    \/ \E ev \in Events : ThrowingListener(ev, MaxThrowingWide)
    \/ NewConnection /\ connectionCounter < MaxResConn
    \/ \E id \in ConnIds : SocketClose(id)
    \/ Tick
    \/ Signal("SIGTERM")
    \/ Shutdown
    \/ ServerCloseCallback(FALSE)
    \/ DrainConnections
    \/ GraceTimeout
    \/ PerformResourceCleanup
    \/ ExecuteShutdownCallbacks
    \/ SequenceComplete
    \/ CleanupThenCallbacks
    \/ CleanupThenComplete
    \/ ForceExit

SpecFaults == Init /\ [][NextFaults]_vars

\* ---- callbacks that fail -----------------------------------------------------
\* a host with up to MaxRCWide resource-cleanup and MaxSCWide shutdown callbacks,
\* each of which may reject, at most MaxResConn connections, SIGTERM as the trigger
NextCallbacks ==
    \/ RegisterServer
    \/ RegisterCleanupCallback(MaxRCWide)
    \/ RegisterShutdownCallback(MaxSCWide)
    \/ NewConnection /\ connectionCounter < MaxResConn
    \/ \E id \in ConnIds : SocketClose(id)
    \/ Tick
    \/ Signal("SIGTERM")
    \/ ServerCloseCallback(FALSE)
    \/ DrainConnections
    \/ GraceTimeout
    \/ PerformResourceCleanup
    \/ \E t \in tasks, outcome \in {"ok", "Error"} : TaskSettle(t, outcome)
    \/ ExecuteShutdownCallbacks
    \/ SequenceComplete
    \/ CleanupThenCallbacks
    \/ CleanupThenComplete

SpecCallbacks == Init /\ [][NextCallbacks]_vars

\* ---- scheduling ---------------------------------------------------------------
\* the host event loop runs every timer that is due and time does not stop
TimerFairness ==
    /\ WF_vars(Tick)
    /\ WF_vars(GraceTimeout)

SpecLive == Spec /\ TimerFairness

\* the listener's close callback fires, every started callback settles, and every
\* queued continuation of the shutdown sequence and every due exit timer runs
SequenceFairness ==
    /\ WF_vars(ServerCloseCallback(FALSE))
    /\ WF_vars(\E t \in tasks : TaskSettle(t, "ok"))
    /\ WF_vars(DrainConnections)
    /\ WF_vars(PerformResourceCleanup)
    /\ WF_vars(ExecuteShutdownCallbacks)
    /\ WF_vars(SequenceComplete)
    /\ WF_vars(CleanupThenCallbacks)
    /\ WF_vars(CleanupThenComplete)
    /\ WF_vars(ForceExit)

SpecResLive == SpecRes /\ TimerFairness /\ SequenceFairness

\* the exception-free coordinator with fair timers and fair continuations
SpecSeqLive == Spec /\ TimerFairness /\ SequenceFairness

\* ---- properties ----------------------------------------------------------------
\* position of a state in the declared order of SHUTDOWN_STATES
Rank(st) ==
    CASE st = ACTIVE -> 0
      [] st = SHUTDOWN_PENDING -> 1
      [] st = DRAINING -> 2
      [] st = CLEANUP -> 3
      [] st = TERMINATION -> 4

\* a socket event or idle timeout that removes a tracked connection, so that
\* removeConnection emits 'connection-removed'
NotifiedRemoval ==
    \E id \in DOMAIN activeConnections :
        SocketClose(id) \/ SocketError(id) \/ ConnectionTimeout(id)

\* C1: whatever triggers arrive and however they interleave, handleSignal passes
\* its guard at most once, so executeShutdownSequence is started at most once.
C1_AtMostOneSequence == seqStarts <= 1

C1_Witness ==
    /\ triggerCount = MaxTriggers
    /\ seqStarts = 1
    /\ exitVia = "completeShutdown"

\* C2: in one shutdown no resource-cleanup callback and no shutdown callback is
\* invoked more than once, performResourceCleanup runs at most once, and when the
\* process exits through completeShutdown every registered callback of both
\* kinds has been invoked exactly once.
C2_EveryPhaseOnce ==
    /\ cleanupStarts <= 1
    /\ \A c \in 1..nRC : rcInvoked[c] <= 1
    /\ \A c \in 1..nSC : scInvoked[c] <= 1
    /\ exitVia = "completeShutdown" =>
          /\ \A c \in 1..nRC : rcInvoked[c] = 1
          /\ \A c \in 1..nSC : scInvoked[c] = 1

\* C3: a call of handleSignal made after shutdown was initiated changes nothing
\* of the coordinator: not the state, shutdownStartTime, shutdownErrors or the
\* registry, and it starts no sequence, phase or callback.
C3_ReentryIgnored ==
    [][(shutdownInitiated /\ triggerCount' # triggerCount) =>
          UNCHANGED <<coordVars, regVars, sockVars, srvVars, resVars, graceVars,
                      seqVars, taskVars, exitVars, seqStarts, cleanupStarts,
                      transitionCalls>>]_vars

C3_Witness ==
    /\ triggerCount >= 2
    /\ seqStarts = 1
    /\ state = DRAINING
    /\ shutdownStartTime < now

\* C4: the state only moves forward along ACTIVE, SHUTDOWN_PENDING, DRAINING,
\* CLEANUP, TERMINATION: no step takes it to an earlier state.
C4_StateMonotonic == [][Rank(state) <= Rank(state')]_vars

C4_Witness ==
    /\ state = TERMINATION
    /\ drainOutcome = "natural"
    /\ transitionCalls = 1

\* C5: resource release and resource-cleanup callbacks start only after the
\* listener close has resolved and the drain has completed, and before any
\* shutdown callback; a shutdown callback starts only when no resource-cleanup
\* callback invocation is running.
C5_PhaseOrder ==
    [][/\ cleanupStarts' # cleanupStarts =>
             /\ acceptResolved
             /\ drainResolved'
             /\ \A c \in 1..MaxSC : scInvoked[c] = 0
       /\ scInvoked' # scInvoked =>
             TasksOf("A", "rc") \cup TasksOf("B", "rc") = {}]_vars

\* C6: when the process exits through completeShutdown, every callback
\* invocation that was started has settled.
C6_NoTaskAbandoned == exitVia = "completeShutdown" => tasks = {}

\* C7: if the registry is empty when drainConnections is entered, the drain
\* completes at once: no grace timer is armed, checkConnections is not
\* subscribed, and forceCloseConnections is not run by the drain.
C7_EmptyDrainImmediate ==
    drainEntry = "empty" =>
        /\ graceTimer = "none"
        /\ "grace" \notin timers
        /\ ~subscribed
        /\ forceCloseByTimer = 0
        /\ resolveCalls = 0
        /\ drainOutcome = "immediate"
        /\ pcA = "drain" => drainResolved

C7_Witness ==
    /\ drainEntry = "empty"
    /\ pcA = "cleanup"
    /\ connectionCounter > 0

\* C8: a connection-removed notification during the drain that leaves the
\* registry empty cancels the grace timer and completes the drain; the grace
\* timer is cancelled by nothing else; and after a natural completion the grace
\* timer has not fired and has run no forceCloseConnections.
C8_NaturalCompletion ==
    [][/\ (NotifiedRemoval /\ graceTimer = "armed" /\ Size(activeConnections') = 0) =>
             /\ graceTimer' = "cleared"
             /\ drainResolved'
             /\ drainOutcome' = "natural"
       /\ (graceTimer # "cleared" /\ graceTimer' = "cleared") =>
             /\ graceTimer = "armed"
             /\ NotifiedRemoval
             /\ Size(activeConnections') = 0
       /\ drainOutcome' = "natural" =>
             /\ graceTimer' = "cleared"
             /\ forceCloseByTimer' = 0]_vars

C8_Witness ==
    /\ drainOutcome = "natural"
    /\ graceTimer = "cleared"
    /\ connectionCounter = 2
    /\ exitVia = "completeShutdown"

C10_DrainCompletedOnce ==
    /\ resolveCalls <= 1
    /\ forceCloseByTimer <= 1
    /\ transitionCalls <= 1
    /\ drainOutcome = "natural" => graceTimer = "cleared" /\ forceCloseByTimer = 0
    /\ drainOutcome = "forced" =>
          /\ graceTimer = "fired"
          /\ transitionCalls = 0
          /\ pcB = "none"

C10_Witness ==
    /\ forceCloseByTimer = 1
    /\ connectionCounter = 2
    /\ \A id \in ConnIds : sockets[id] = "closed"
    /\ pcA = "cleanup"

C12_ForcedDrainExitsTimeout ==
    (exitVia = "completeShutdown" /\ drainOutcome = "forced") => exitCode = TIMEOUT

\* the error argument of the call of completeShutdown that ended the process:
\* executeShutdownSequence passes the error of its trigger, the chain of
\* transitionToCleanup passes none
ExitErrorArgument == pcA = "done" /\ seqError

C14_ErrorClassification ==
    (exitVia = "completeShutdown" /\ Len(shutdownErrors) > 0) =>
        /\ (\E i \in 1..Len(shutdownErrors) : shutdownErrors[i] = "TimeoutError")
              => exitCode = TIMEOUT
        /\ (\A i \in 1..Len(shutdownErrors) : shutdownErrors[i] # "TimeoutError")
              => exitCode = RESOURCE_CLEANUP_FAILED

C14_Witness ==
    /\ exitVia = "completeShutdown"
    /\ shutdownErrors = <<"Error", "TimeoutError">>
    /\ exitCode = TIMEOUT
    /\ closeCallback = "fired"
    /\ rcInvoked[1] = 1

\* C15: every exception thrown by a listener of a shutdown event is routed to
\* forceShutdown with status 3 (one call of forceShutdown per exception, each
\* with SIGNAL_ERROR), and a process that exits after such an exception exits
\* through forceShutdown with status 3.
C15_EscapedRoutedToForce ==
    /\ Len(forceCodes) = escaped
    /\ \A i \in 1..Len(forceCodes) : forceCodes[i] = SIGNAL_ERROR
    /\ (exited /\ escaped > 0) =>
          (exitVia = "forceShutdown" /\ exitCode = SIGNAL_ERROR)

\* C16: when a resource-cleanup or shutdown callback rejects, its error is
\* appended to shutdownErrors and only that invocation leaves the awaited set
\* (the others of the phase go on and the chain does not move or exit in that
\* step); and at an exit through completeShutdown every registered callback of
\* both phases has been invoked and the exiting chain awaits nothing.
C16_FailuresCollected ==
    /\ [][(tasks' # tasks /\ shutdownErrors' # shutdownErrors) =>
             /\ \E t \in tasks : tasks' = tasks \ {t}
             /\ Len(shutdownErrors') = Len(shutdownErrors) + 1
             /\ pcA' = pcA /\ pcB' = pcB
             /\ ~exited']_vars
    /\ [](exitVia = "completeShutdown" =>
             /\ \A c \in 1..nRC : rcInvoked[c] >= 1
             /\ \A c \in 1..nSC : scInvoked[c] >= 1
             /\ pcA = "done" => TasksOf("A", "rc") \cup TasksOf("A", "sc") = {}
             /\ pcB = "done" => TasksOf("B", "rc") \cup TasksOf("B", "sc") = {})

C16_Witness ==
    /\ exitVia = "completeShutdown"
    /\ nRC = 2 /\ nSC = 2
    /\ shutdownErrors = <<"Error", "Error">>
    /\ cleanupStarts = 1
    /\ rcInvoked[2] = 1 /\ scInvoked[2] = 1
    /\ exitCode = RESOURCE_CLEANUP_FAILED

\* C17: once handleSignal has passed its guard, the process eventually exits
\* (through completeShutdown or through forceShutdown), when the close callback
\* fires, the callbacks settle and due timers and continuations run.
C17_EventuallyExits == shutdownInitiated ~> exited

\* the handles the tracker holds
Tracked == timers \cup intervals \cup eventListeners

\* C18: a run of performResourceCleanup calls the release of every tracked
\* handle, also of those that follow a listener whose removeListener throws,
\* and leaves the tracked timers, intervals, event listeners and signal
\* handlers empty; they stay empty afterwards.
C18_SweepEmptiesTracker ==
    /\ [][cleanupStarts' # cleanupStarts =>
             /\ timers' = {} /\ intervals' = {} /\ eventListeners' = {}
             /\ signalHandlers' = {}
             /\ \A h \in Tracked : released'[h] = released[h] + 1]_vars
    /\ [](cleanupStarts > 0 => (Tracked = {} /\ signalHandlers = {}))

C18_Witness ==
    /\ cleanupStarts = 1
    /\ failedReleases = {"l1"}
    /\ released = [h \in Handles |-> IF h = "grace" THEN 0 ELSE 1]
    /\ Tracked = {}
    /\ signalHandlers = {}

\* C19: no handle is released more than once, and when the process has exited
\* no handle is left in the tracker without having been released.
C19_ReleasedExactlyOnce ==
    /\ \A h \in Handles : released[h] <= 1
    /\ exited => \A h \in Tracked : released[h] = 1

RemoveCall(id) == SocketClose(id) \/ SocketError(id) \/ ConnectionTimeout(id)

\* C21: the call of removeConnection that finds the record cancels the idle
\* timeout, deletes the record and emits 'connection-removed' once; a call
\* that does not find it changes nothing of the coordinator and emits nothing,
\* so no connection is ever notified more than once.
C21_RemoveIdempotent ==
    /\ [][\A id \in ConnIds :
            /\ (RemoveCall(id) /\ id \in DOMAIN activeConnections) =>
                  /\ idleTimer'[id] = -1
                  /\ activeConnections' = Without(activeConnections, id)
                  /\ notified'[id] = notified[id] + 1
            /\ (RemoveCall(id) /\ id \notin DOMAIN activeConnections) =>
                  UNCHANGED <<coordVars, activeConnections, maxConnectionsReached,
                              notified, resVars, graceVars, seqVars, taskVars,
                              exitVars, obsVars, trackVars, faultVars>>]_vars
    /\ [](\A id \in ConnIds : notified[id] <= 1)

C21_Witness ==
    /\ removeCalls[1] = 2
    /\ notified[1] = 1
    /\ sockets[1] = "closed"
    /\ state = DRAINING
    /\ subscribed
    /\ DOMAIN activeConnections = {2}

\* the request handler serving requests on the tracked connections
NextRequest ==
    \/ RegisterServer
    \/ NewConnection
    \/ \E id \in ConnIds : SocketData(id) \/ SocketClose(id) \/ SocketError(id)
    \/ \E id \in ConnIds, down \in BOOLEAN : RequestStart(id, down)
    \/ RequestTimeout
    \/ \E outcome \in {"ok", "ValidationError", "Error"} : ValidationSettle(outcome)

SpecRequest == Init /\ [][NextRequest]_vars

\* C24: a request whose handler finds isShuttingDown() true is answered with
\* status 503 at once, validateRequest is not called for it and it is not
\* processed; no other request is answered with 503.
C24_ShutdownRequestRejected ==
    /\ request.down =>
          /\ request.pc = "done"
          /\ request.status = UNAVAILABLE_STATUS
          /\ ~request.validated
          /\ ~request.processed
    /\ request.status = UNAVAILABLE_STATUS => request.down

C24_Witness ==
    /\ request.down
    /\ request.status = UNAVAILABLE_STATUS
    /\ request.pc = "done"
    /\ sockets[1] = "open"
    /\ activeConnections[1].requestCount = 1

\* the coordinator constructed with a connection limit that is reached
SpecLimit == InitLimit /\ [][Next]_vars

\* C22: a connection offered while the state is ACTIVE and the registry holds
\* maxConnections records or more is destroyed and not tracked, and in every
\* reachable ACTIVE state the registry holds at most maxConnections records.
C22_LimitEnforced ==
    /\ [][(connectionCounter' # connectionCounter /\ state = ACTIVE
             /\ Size(activeConnections) >= connLimit) =>
                /\ sockets'[connectionCounter'] = "rejected"
                /\ activeConnections' = activeConnections
                /\ idleTimer'[connectionCounter'] = -1]_vars
    /\ [](state = ACTIVE => Size(activeConnections) <= connLimit)

C22_Witness ==
    /\ state = ACTIVE
    /\ connectionCounter = 2
    /\ sockets = [i \in ConnIds |-> IF i = 1 THEN "open" ELSE "rejected"]
    /\ DOMAIN activeConnections = {1}
    /\ Size(activeConnections) = connLimit
    /\ maxConnectionsReached

\* C23: once shutdown has been initiated the registry never grows, and a
\* connection offered when the state is not ACTIVE is not added to it.
C23_NoAdmissionAfterInitiation ==
    [][shutdownInitiated =>
          /\ Size(activeConnections') <= Size(activeConnections)
          /\ DOMAIN activeConnections' \subseteq DOMAIN activeConnections]_vars

\* C25: when the idle timeout of a tracked connection closes it, the
\* connection has had no activity for connectionTimeoutMs (stated for the
\* connections whose timeout falls within the modelled clock).
C25_IdleTimeoutOnlyWhenIdle ==
    [][\A id \in DOMAIN activeConnections :
          (/\ ConnectionTimeout(id)
           /\ activeConnections[id].startTime + connectionTimeoutMs <= MaxTime) =>
              now - activeConnections[id].lastActivity >= connectionTimeoutMs]_vars

\* C26: the shutdown summary is produced at most once, and when it is produced
\* its signal field is the trigger of the handleSignal call that passed the
\* guard.
C26_OutcomeNamesTrigger ==
    /\ exitVia = "completeShutdown" => outcomeSignal = seqSignal
    /\ outcomeSignal # "none" => exited

\* C27: when completeShutdown computes the summary the registry is empty, so
\* finalConnectionCount is 0, however the drain ended.
C27_FinalCountZero ==
    /\ [][exitVia' = "completeShutdown" /\ exitVia # "completeShutdown" =>
             Size(activeConnections) = 0]_vars
    /\ [](exitVia = "completeShutdown" => Size(activeConnections) = 0)

C27_Witness ==
    /\ exitVia = "completeShutdown"
    /\ drainOutcome = "forced"
    /\ connectionCounter = 2
    /\ forceCloseByTimer = 1
    /\ Size(activeConnections) = 0

\* C28: whatever calls of registerServer and triggers there are, the process
\* never has more than one handler of the coordinator for a trigger kind.
C28_NoDuplicateHandlers == \A k \in HandlerKinds : processListeners[k] <= 1

C28_Witness ==
    /\ server = "registered"
    /\ \A k \in HandlerKinds : processListeners[k] = 1
    /\ triggerCount = 2
    /\ state = SHUTDOWN_PENDING

\* what a trigger named name does when no listener throws: nothing but the
\* count of triggers changes if shutdown has begun; otherwise the guard is
\* passed and the sequence starts, without an error argument
TriggerEffect(name) ==
    IF shutdownInitiated
    THEN /\ triggerCount' = triggerCount + 1
         /\ UNCHANGED <<coordVars, regVars, sockVars, srvVars, resVars, cbVars,
                        graceVars, seqVars, taskVars, exitVars, seqStarts,
                        cleanupStarts, trackVars, faultVars>>
    ELSE /\ shutdownInitiated'
         /\ state' = SHUTDOWN_PENDING
         /\ shutdownStartTime' = now
         /\ seqStarts' = seqStarts + 1
         /\ seqSignal' = name
         /\ ~seqError'
         /\ pcA' = "stopAccept"
         /\ acceptResolved' = (server = "none")
         /\ server # "none" => (~listening' /\ closeCallback' = "pending")

\* C29: shutdown(reason) does what a signal does from the same state: the same
\* guard, the same start of the sequence, and at the end the same selection of
\* the exit status; a programmatic call after shutdown has begun changes
\* nothing.
C29_ProgrammaticEquivalent ==
    /\ [][/\ Shutdown => TriggerEffect("PROGRAMMATIC")
          /\ \A sig \in Signals : Signal(sig) => TriggerEffect(sig)]_vars
    /\ [](exitVia = "completeShutdown" /\ seqSignal \in Signals \cup {"PROGRAMMATIC"} =>
             /\ exitCode = ExitCodeFor(FALSE, shutdownErrors)
             /\ cleanupStarts >= 1)

C29_Witness ==
    /\ seqSignal = "PROGRAMMATIC"
    /\ server = "registered"
    /\ triggerCount = 2
    /\ seqStarts = 1
    /\ connectionCounter = 1
    /\ drainOutcome = "forced"
    /\ exitVia = "completeShutdown"
    /\ outcomeSignal = "PROGRAMMATIC"

\* the promise of handleSignal is rejected: its catch called forceShutdown,
\* and forceShutdown met a listener that throws
HandleSignalRejected ==
    /\ \E i \in 1..Len(forceCodes) : forceCodes[i] = SIGNAL_ERROR
    /\ Throws("connections-force-closed") \/ Throws("force-shutdown")

\* C30: handleSignal, and shutdown(reason) which awaits it, never reject: a
\* failure of the sequence ends in forceShutdown and its exit timer.
C30_NeverRejects ==
    /\ ~HandleSignalRejected
    /\ \A i \in 1..Len(forceCodes) :
          forceCodes[i] = SIGNAL_ERROR => (exited \/ SIGNAL_ERROR \in
              {forceQueue[j] : j \in 1..Len(forceQueue)})

\* C31: the state is CLEANUP whenever performResourceCleanup executes, and a
\* shutdown that terminates through completeShutdown has been in DRAINING for
\* its drain phase, whatever way the drain went.
C31_CleanupStateDuringCleanup ==
    /\ [][cleanupStarts' # cleanupStarts => state' = CLEANUP]_vars
    /\ [][drainEntry' # drainEntry => state' = DRAINING]_vars

\* the position of executeShutdownSequence in its five steps
StepRank(pc) ==
    CASE pc = "idle" -> 0
      [] pc = "stopAccept" -> 1
      [] pc = "drain" -> 2
      [] pc = "cleanup" -> 3
      [] pc = "callbacks" -> 4
      [] pc = "done" -> 5
      [] OTHER -> 6

\* the close callback has reported an error and the sequence has not gone on
CloseErrorReported ==
    /\ pcA = "stopAccept"
    /\ closeCallback = "fired"
    /\ shutdownErrors = <<"Error">>

\* C32: when the close callback reports an error, the error is recorded,
\* stopAcceptingConnections resolves, and executeShutdownSequence goes through
\* drain, cleanup, shutdown callbacks and termination one after the other
\* until the process exits.
C32_CloseErrorTolerated ==
    /\ [][ServerCloseCallback(TRUE) =>
             /\ acceptResolved'
             /\ shutdownErrors' = Append(shutdownErrors, "Error")]_vars
    /\ [][pcA' # pcA => StepRank(pcA') = StepRank(pcA) + 1]_vars
    /\ CloseErrorReported ~> exited
    /\ [](exitVia = "completeShutdown" => cleanupStarts >= 1)

C32_Witness ==
    /\ closeCallback = "fired"
    /\ shutdownErrors = <<"Error">>
    /\ pcA = "done"
    /\ drainEntry = "waiting"
    /\ cleanupStarts = 1
    /\ nSC = 1 /\ scInvoked[1] = 1
    /\ exitVia = "completeShutdown"
    /\ exitCode = RESOURCE_CLEANUP_FAILED

\* C33: a call of forceShutdown(status) leaves the registry empty, has cleared
\* every tracked timer and interval, invokes no resource-cleanup or shutdown
\* callback, and the process exits with the status of the call and no other.
C33_ForceShutdownExitsWithStatus ==
    /\ [][forceCodes' # forceCodes =>
             /\ activeConnections' = EmptyMap
             /\ \A h \in timers \cup intervals : released'[h] >= 1
             /\ rcInvoked' = rcInvoked
             /\ scInvoked' = scInvoked]_vars
    /\ []((exited /\ forceCodes # <<>>) =>
             /\ exitVia = "forceShutdown"
             /\ \A i \in 1..Len(forceCodes) : forceCodes[i] = exitCode)

\* C34: when the grace timer force-closes the connections and destroy() throws
\* for some of them, every other tracked connection that is open is destroyed,
\* one error per failure is appended to shutdownErrors, and the registry is
\* empty afterwards.
C34_ForceCloseTolerant ==
    [][\A fails \in SUBSET ConnIds : ForceCloseTimeout(fails) =>
          LET tracked == DOMAIN activeConnections
          IN /\ \A id \in tracked \ fails :
                   sockets[id] = "open" => sockets'[id] = "destroyed"
             /\ shutdownErrors' =
                   PushErrors(shutdownErrors, Cardinality(tracked \cap fails))
             /\ activeConnections' = EmptyMap]_vars

C34_Witness ==
    /\ forceCloseByTimer = 1
    /\ connectionCounter = 2
    /\ removeCalls[1] = 0 /\ removeCalls[2] = 0
    /\ sockets[1] = "open"
    /\ sockets[2] = "destroyed"
    /\ shutdownErrors = <<"Error">>
    /\ activeConnections = EmptyMap

\* the transport of connection id was accepted by the tracking handler, which
\* did not turn it away at the limit
Admitted(id) == id <= connectionCounter /\ sockets[id] # "rejected"

Orphans == {id \in ConnIds : Admitted(id) /\ sockets[id] = "open"
                             /\ id \notin DOMAIN activeConnections}

C36_SignalHandlersStayInstalled ==
    (server = "registered" /\ ~exited /\ Quiescent) =>
        \A sig \in Signals : sig \in signalHandlers /\ processListeners[sig] > 0

\* C37: the idle-timeout timer of a connection is armed only while the
\* connection is in the registry.
C37_IdleTimerOnlyWhileTracked ==
    \A id \in ConnIds : idleTimer[id] >= 0 => id \in DOMAIN activeConnections

\* C38: the status of an exit through completeShutdown is a function of the
\* trigger (whether it carried an error) and of the recorded errors alone: it
\* is the same whichever chain reached completeShutdown.
C38_StatusDependsOnTriggerAndErrors ==
    exitVia = "completeShutdown" => exitCode = ExitCodeFor(seqError, shutdownErrors)

C40_RegisterServerRefusals ==
    /\ [](server \in {"none", "registered", "other"})
    /\ [][server # "none" => server' = server]_vars
    /\ [][refused' # refused =>
             UNCHANGED <<server, listening, closeCallback, resVars, regVars,
                         sockVars, coordVars>>]_vars
    /\ [][(\E k \in HandlerKinds : processListeners'[k] > processListeners[k]) =>
             (server = "none" /\ server' \in {"registered", "other"})]_vars

C40_Witness ==
    /\ server = "other"
    /\ refused = MaxRefused
    /\ \A k \in HandlerKinds : processListeners[k] = 1
    /\ connectionCounter = 1
    /\ state = ACTIVE
====
